---- MODULE Spec2Model ----
(***************************************************************************)
(* Streak engine of the screen-time tracker: the screen_time_logs and      *)
(* user_streaks tables, the constraints on them, the AFTER INSERT trigger  *)
(* calculate_streak_on_log with its function update_user_streak(), and the *)
(* client's soft delete and edit, and the get_leaderboard() function.      *)
(* Dates are day numbers counted from a Sunday; a week start is a multiple *)
(* of seven days.                                                          *)
(***************************************************************************)
EXTENDS Integers, Sequences, FiniteSets, TLC

\* ------------------------------------------------------------------ bounds
MaxWeek == 3
MaxLogs == 3
MaxTime == 1

\* ------------------------------------------------------------ input domains
Users == {"alice", "bob"}
Sessions == {"s1", "s2"}

\* SQL NULL (a nullable column without a value).
NULL == -1

\* INTERVAL '7 days'
WeekDays == 7

\* CHECK (minutes >= 0 AND minutes <= 10080)
MaxMinutes == 10080

\* week_start_date values a caller supplies: period-aligned dates.
Weeks == {WeekDays * i : i \in 0 .. MaxWeek}

\* minutes values a caller supplies: one inside the CHECK range, one outside.
MinutesSet == {60, MaxMinutes + 1}

\* deleted_at values a client supplies (new Date().toISOString()).
Times == 1 .. MaxTime

VARIABLES
  screen_time_logs,   \* committed rows of screen_time_logs
  user_streaks,       \* committed rows of user_streaks
  sess,               \* per database session: the transaction in flight
  hist,               \* history: the committed inserts, in commit order
  ev,                 \* history: the last accepted insert and the streak row it found
  users,              \* rows of users
  user_settings,      \* rows of user_settings
  today,              \* CURRENT_DATE
  lb,                 \* the last get_leaderboard() call: arguments and result
  auth_uid,           \* auth.uid() of the session that calls get_leaderboard()
  form,               \* LogsPage: the last submit, its totalMinutes and its outcome
  page,               \* LeaderboardPage: period, loading, leaderboard
  wk                  \* weekUtils: the arguments and the result of the last call

lbvars == <<users, user_settings, today, lb, auth_uid>>

uivars == <<form, page, wk>>

vars == <<screen_time_logs, user_streaks, sess, hist, ev, lbvars, uivars>>

\* ------------------------------------------------------------------ tables
LogRow(i, u, w, m, d) ==
  [id |-> i, user_id |-> u, week_start_date |-> w, minutes |-> m, deleted_at |-> d]

StreakRow(u, c, l, w) ==
  [user_id |-> u, current_streak |-> c, longest_streak |-> l,
   last_log_week_start |-> w]

\* CHECK (minutes >= 0 AND minutes <= 10080)
screen_time_logs_minutes_check(r) == r.minutes >= 0 /\ r.minutes <= MaxMinutes

\* UNIQUE(user_id, week_start_date, deleted_at): a row conflicts with a row
\* that is equal on all three columns; two NULLs are not equal, so rows whose
\* deleted_at is NULL never conflict with each other.
screen_time_logs_user_id_week_deleted_at_key(rows, r) ==
  \A x \in rows :
    ~ ( /\ x.user_id = r.user_id
        /\ x.week_start_date = r.week_start_date
        /\ x.deleted_at # NULL
        /\ r.deleted_at # NULL
        /\ x.deleted_at = r.deleted_at )

\* SELECT ... FROM user_streaks WHERE user_id = u  (FOUND iff non-empty)
SelectStreak(tbl, u) == {r \in tbl : r.user_id = u}

\* GREATEST(a, b): NULL arguments are ignored.
GREATEST(a, b) ==
  IF a = NULL THEN b ELSE IF b = NULL THEN a ELSE IF a > b THEN a ELSE b

\* Variant: the guard that keeps backfilled and duplicate periods out is lost.
StreakWrites_Always(rec, P) == TRUE

\* IF v_last_week IS NULL OR new.week_start_date > v_last_week
StreakWrites(rec, P) ==
  rec.last_log_week_start = NULL \/ P > rec.last_log_week_start

\* Variants of the computation below, each with one branch changed.
StreakValues_With(rec, P, onNext, onGap, longest) ==
  LET v_last_week == rec.last_log_week_start
      v_current_streak ==
        IF v_last_week = NULL \/ P = v_last_week + WeekDays
          THEN (IF onNext = "keep" THEN rec.current_streak ELSE rec.current_streak + 1)
        ELSE IF P = v_last_week
          THEN rec.current_streak
        ELSE (IF onGap = "grow" THEN rec.current_streak + 1 ELSE 1)
      v_longest_streak ==
        IF longest = "stale" THEN rec.longest_streak
        ELSE IF longest = "current" THEN v_current_streak
        ELSE IF v_current_streak > rec.longest_streak
          THEN v_current_streak
        ELSE rec.longest_streak
  IN [user_id |-> rec.user_id, current_streak |-> v_current_streak,
      longest_streak |-> v_longest_streak,
      last_log_week_start |-> IF v_last_week = NULL \/ P > v_last_week
                                THEN P ELSE v_last_week]

\* the longest streak is never raised
StreakValues_StaleLongest(rec, P) == StreakValues_With(rec, P, "inc", "reset", "stale")

\* the longest streak is overwritten with the current one
StreakValues_LongestIsCurrent(rec, P) == StreakValues_With(rec, P, "inc", "reset", "current")

\* an entry for the next period does not extend the streak
StreakValues_NoIncrement(rec, P) == StreakValues_With(rec, P, "keep", "reset", "max")

\* an entry after a gap extends the streak instead of restarting it
StreakValues_NoReset(rec, P) == StreakValues_With(rec, P, "inc", "grow", "max")

\* The values the UPDATE writes, computed from the record read earlier.
StreakValues(rec, P) ==
  LET v_last_week == rec.last_log_week_start
      v_current_streak ==
        IF v_last_week = NULL \/ P = v_last_week + WeekDays
          THEN rec.current_streak + 1
        ELSE IF P = v_last_week
          THEN rec.current_streak
        ELSE 1
      v_longest_streak ==
        IF v_current_streak > rec.longest_streak
          THEN v_current_streak
        ELSE rec.longest_streak
  IN StreakRow(rec.user_id, v_current_streak, v_longest_streak,
               GREATEST(P, v_last_week))

\* Variant: the UPDATE without its WHERE clause.
UpdateStreak_NoWhere(tbl, row) == {row : r \in tbl}

\* UPDATE user_streaks SET ... WHERE user_id = new.user_id
UpdateStreak(tbl, row) ==
  {IF r.user_id = row.user_id THEN row ELSE r : r \in tbl}

\* Variant: the first row is created with the column defaults (0, 0).
FirstStreak_Defaults(new) ==
  [user_id |-> new.user_id, current_streak |-> 0, longest_streak |-> 0,
   last_log_week_start |-> new.week_start_date]

\* INSERT INTO user_streaks (...) VALUES (new.user_id, 1, 1, new.week_start_date)
FirstStreak(new) == StreakRow(new.user_id, 1, 1, new.week_start_date)

\* update_user_streak() run in one piece: the table after the trigger.
update_user_streak(tbl, new) ==
  LET found == SelectStreak(tbl, new.user_id)
  IN IF found = {}
       THEN tbl \cup {FirstStreak(new)}
     ELSE LET rec == CHOOSE r \in found : TRUE
          IN IF StreakWrites(rec, new.week_start_date)
               THEN UpdateStreak(tbl, StreakValues(rec, new.week_start_date))
             ELSE tbl

\* CREATE TRIGGER calculate_streak_on_log AFTER INSERT ... WHEN (new.deleted_at IS NULL)
calculate_streak_on_log(tbl, new) ==
  IF new.deleted_at = NULL THEN update_user_streak(tbl, new) ELSE tbl

\* ----------------------------------------------------------------- history
Event(op, u, w, before) ==
  [op |-> op, user_id |-> u, week |-> w, before |-> before]

HistEntry(u, w, began) == [user_id |-> u, week |-> w, began |-> began]

\* The number of committed inserts of user u.
Committed(u) == Cardinality({i \in 1 .. Len(hist) : hist[i].user_id = u})

Idle == [pc |-> "idle", new |-> LogRow(0, "", NULL, 0, NULL),
         v_streak_record |-> {}, began |-> 0]

\* users rows (id, display_name, deleted_at); no code path sets deleted_at.
UserRow(u, n) == [id |-> u, display_name |-> n, deleted_at |-> NULL]

\* A session whose role bypasses row level security: its queries see every
\* row.  The policies are written TO authenticated.
ServiceRole == "service_role"

\* No get_leaderboard() call has been made.
NoCall == [period |-> "", limit_count |-> 0, start_date |-> NULL, rows |-> <<>>]

\* -------------------------------------------------------------------- Init
\* LogsPage before any submit.
NoSubmit == [totalMinutes |-> 0, error |-> "none", saved |-> FALSE]

\* LeaderboardPage after its first render: useState([]), useState(true),
\* useState('weekly'), and the effect has started the load of that period.
\* pending is the period of the load in flight, shown the period whose
\* result leaderboard holds.
Mounted ==
  [period |-> "weekly", loading |-> TRUE, leaderboard |-> <<>>,
   pending |-> "weekly", shown |-> ""]

\* weekUtils before any call.
NoWeek == [fn |-> "", tz |-> 0, arg |-> 0, out |-> <<>>]

Init ==
  /\ screen_time_logs = {}
  /\ user_streaks = {}
  /\ sess = [s \in Sessions |-> Idle]
  /\ hist = <<>>
  /\ ev = Event("none", "", NULL, {})
  /\ users = {UserRow(u, u) : u \in Users}
  /\ user_settings = {}
  /\ today = 0
  /\ lb = NoCall
  /\ auth_uid = ServiceRole
  /\ form = NoSubmit
  /\ page = Mounted
  /\ wk = NoWeek

\* ---------------------------------------------------------------- actions
\* An insert of one log and its trigger, run as one transaction with no other
\* transaction in between.
InsertLog(u, w, m) ==
  LET new == LogRow(Cardinality(screen_time_logs) + 1, u, w, m, NULL)
      before == SelectStreak(user_streaks, u)
      accepted == /\ screen_time_logs_minutes_check(new)
                  /\ screen_time_logs_user_id_week_deleted_at_key(screen_time_logs, new)
  IN /\ Cardinality(screen_time_logs) < MaxLogs
     /\ IF accepted
          THEN /\ screen_time_logs' = screen_time_logs \cup {new}
               /\ user_streaks' = calculate_streak_on_log(user_streaks, new)
               /\ hist' = Append(hist, HistEntry(u, w, Committed(u)))
               /\ ev' = Event("insert", u, w, before)
          ELSE UNCHANGED <<screen_time_logs, user_streaks, hist, ev>>
     /\ UNCHANGED <<sess, lbvars, uivars>>

\* handleDelete: UPDATE screen_time_logs SET deleted_at = t WHERE id = ...
\* on a row the list shows (deleted_at IS NULL).  No trigger runs on UPDATE.
SoftDelete(r, t) ==
  LET upd == [r EXCEPT !.deleted_at = t]
  IN /\ r \in screen_time_logs
     /\ r.deleted_at = NULL
     /\ IF screen_time_logs_user_id_week_deleted_at_key(screen_time_logs \ {r}, upd)
          THEN screen_time_logs' = (screen_time_logs \ {r}) \cup {upd}
          ELSE UNCHANGED screen_time_logs
     /\ UNCHANGED <<user_streaks, sess, hist, ev, lbvars, uivars>>

Next ==
  \/ \E u \in Users, w \in Weeks, m \in MinutesSet : InsertLog(u, w, m)
  \/ \E r \in screen_time_logs, t \in Times : SoftDelete(r, t)

Spec == Init /\ [][Next]_vars

\* ------------------------------------------------- concurrent transactions
\* Each session runs one INSERT INTO screen_time_logs at a time, as its own
\* transaction (READ COMMITTED).  The trigger's SELECT reads the committed
\* user_streaks; its INSERT or UPDATE takes the row lock and is made visible
\* by the commit, so the write and the commit are one step for the others.
InFlight == {s \in Sessions : sess[s].pc = "selected"}

\* The INSERT statement up to and including the trigger's SELECT ... INTO
\* v_streak_record.
BeginInsert(s, u, w, m) ==
  LET new == LogRow(0, u, w, m, NULL)
  IN /\ sess[s].pc = "idle"
     /\ Cardinality(screen_time_logs) + Cardinality(InFlight) < MaxLogs
     /\ IF /\ screen_time_logs_minutes_check(new)
           /\ screen_time_logs_user_id_week_deleted_at_key(screen_time_logs, new)
          THEN sess' = [sess EXCEPT ![s] =
                 [pc |-> "selected", new |-> new,
                  v_streak_record |-> SelectStreak(user_streaks, u),
                  began |-> Committed(u)]]
          ELSE UNCHANGED sess
     /\ UNCHANGED <<screen_time_logs, user_streaks, hist, ev, lbvars, uivars>>

\* user_id uuid UNIQUE NOT NULL: the INSERT INTO user_streaks of a trigger
\* that found no row fails when a row of the user has been committed since.
user_streaks_user_id_key(tbl, u) == SelectStreak(tbl, u) = {}

\* The rest of the trigger, from IF NOT FOUND on, and the commit.
CommitInsert(s) ==
  LET new == [sess[s].new EXCEPT !.id = Cardinality(screen_time_logs) + 1]
      u == new.user_id
      found == sess[s].v_streak_record
  IN /\ sess[s].pc = "selected"
     /\ IF found = {}
          THEN /\ user_streaks_user_id_key(user_streaks, u)
               /\ user_streaks' = user_streaks \cup {FirstStreak(new)}
          ELSE LET rec == CHOOSE r \in found : TRUE
               IN IF StreakWrites(rec, new.week_start_date)
                    THEN user_streaks' =
                           UpdateStreak(user_streaks, StreakValues(rec, new.week_start_date))
                    ELSE UNCHANGED user_streaks
     /\ screen_time_logs' = screen_time_logs \cup {new}
     /\ hist' = Append(hist, HistEntry(u, new.week_start_date, sess[s].began))
     /\ ev' = Event("insert", u, new.week_start_date, SelectStreak(user_streaks, u))
     /\ sess' = [sess EXCEPT ![s] = Idle]
     /\ UNCHANGED <<lbvars, uivars>>

\* Variant: the failed trigger does not take the new log down with it.
AbortInsert_KeepsLog(s) ==
  /\ sess[s].pc = "selected"
  /\ sess[s].v_streak_record = {}
  /\ SelectStreak(user_streaks, sess[s].new.user_id) # {}
  /\ screen_time_logs' = screen_time_logs \cup
       {[sess[s].new EXCEPT !.id = Cardinality(screen_time_logs) + 1]}
  /\ sess' = [sess EXCEPT ![s] = Idle]
  /\ UNCHANGED <<user_streaks, hist, ev, lbvars, uivars>>

\* The trigger's INSERT INTO user_streaks raises a unique violation: the
\* statement fails and the transaction, the new log included, is rolled back.
AbortInsert(s) ==
  /\ sess[s].pc = "selected"
  /\ sess[s].v_streak_record = {}
  /\ ~ user_streaks_user_id_key(user_streaks, sess[s].new.user_id)
  /\ sess' = [sess EXCEPT ![s] = Idle]
  /\ UNCHANGED <<screen_time_logs, user_streaks, hist, ev, lbvars, uivars>>

ConcNext ==
  \/ \E s \in Sessions, u \in Users, w \in Weeks, m \in MinutesSet :
       BeginInsert(s, u, w, m)
  \/ \E s \in Sessions : CommitInsert(s)
  \/ \E s \in Sessions : AbortInsert(s)

ConcSpec == Init /\ [][ConcNext]_vars

\* ------------------------------------------------------------ editing a log
\* handleSubmit with editingId set: UPDATE screen_time_logs SET date, minutes,
\* notes WHERE id = editingId, on a row the list shows.  The CHECK and UNIQUE
\* constraints apply to the new row; calculate_streak_on_log is an AFTER
\* INSERT trigger and does not run.
EditLog(r, w, m) ==
  LET upd == [r EXCEPT !.week_start_date = w, !.minutes = m]
  IN /\ r \in screen_time_logs
     /\ r.deleted_at = NULL
     /\ IF /\ screen_time_logs_minutes_check(upd)
           /\ screen_time_logs_user_id_week_deleted_at_key(screen_time_logs \ {r}, upd)
          THEN screen_time_logs' = (screen_time_logs \ {r}) \cup {upd}
          ELSE UNCHANGED screen_time_logs
     /\ UNCHANGED <<user_streaks, sess, hist, ev, lbvars, uivars>>

EditNext ==
  \/ \E u \in Users, w \in Weeks, m \in MinutesSet : InsertLog(u, w, m)
  \/ \E r \in screen_time_logs, t \in Times : SoftDelete(r, t)
  \/ \E r \in screen_time_logs, w \in Weeks, m \in MinutesSet : EditLog(r, w, m)

EditSpec == Init /\ [][EditNext]_vars

\* ================================================================ properties
\* The streak row of the user of the last accepted insert, now and before it.
EvNow == SelectStreak(user_streaks, ev.user_id)

Max2(a, b) == IF a > b THEN a ELSE b

\* The period starts of user u's entries: all of them, and the non-deleted ones.
WeeksAny(u) == {r.week_start_date : r \in {x \in screen_time_logs : x.user_id = u}}

WeeksLive(u) ==
  {r.week_start_date :
     r \in {x \in screen_time_logs : x.user_id = u /\ x.deleted_at = NULL}}

\* The number of consecutive periods ending at L that are all in S.
RECURSIVE Run(_, _)
Run(S, L) == IF L \in S THEN 1 + Run(S, L - WeekDays) ELSE 0

\* C1: every streak row has longest_streak >= current_streak, after any
\* sequence of inserts (in order, backfilled, after a gap, duplicate period).
C1_LongestAtLeastCurrent ==
  \A r \in user_streaks : r.longest_streak >= r.current_streak

\* C1 witness: a streak of two was broken by a gap, so longest > current.
C1_Witness ==
  \E r \in user_streaks : r.longest_streak = 2 /\ r.current_streak = 1

\* C2: in every step, a user's longest_streak is at least what it was before
\* the step (and the row, once created, stays).
C2_LongestNeverDecreases ==
  [][\A r \in user_streaks :
       \E q \in user_streaks' :
         q.user_id = r.user_id /\ q.longest_streak >= r.longest_streak]_vars

\* C2 witness: an insert has raised the longest streak of an existing row.
C2_Witness ==
  /\ ev.op = "insert"
  /\ \E b \in ev.before, r \in EvNow : r.longest_streak > b.longest_streak

\* C3: an insert for the period right after lastLoggedPeriodStart = L (L + 7
\* days) on a row with currentStreak = k gives currentStreak = k + 1,
\* longestStreak = max(old longestStreak, k + 1), lastLoggedPeriodStart = L + 7.
C3_Continuation ==
  \A b \in ev.before :
    (ev.op = "insert" /\ b.last_log_week_start # NULL
       /\ ev.week = b.last_log_week_start + WeekDays)
    => EvNow = {[user_id |-> ev.user_id,
                 current_streak |-> b.current_streak + 1,
                 longest_streak |-> Max2(b.longest_streak, b.current_streak + 1),
                 last_log_week_start |-> b.last_log_week_start + WeekDays]}

\* C3 witness: the last insert was for the period after the last logged one.
C3_Witness ==
  /\ ev.op = "insert"
  /\ \E b \in ev.before :
       b.last_log_week_start # NULL /\ ev.week = b.last_log_week_start + WeekDays

\* C4: an insert for a period later than the one after L sets currentStreak
\* to 1, leaves longestStreak (already >= 1) as it was and sets
\* lastLoggedPeriodStart to the new period.
C4_Gap ==
  \A b \in ev.before :
    (ev.op = "insert" /\ b.last_log_week_start # NULL
       /\ ev.week > b.last_log_week_start + WeekDays)
    => /\ b.longest_streak >= 1
       /\ EvNow = {[user_id |-> ev.user_id,
                    current_streak |-> 1,
                    longest_streak |-> b.longest_streak,
                    last_log_week_start |-> ev.week]}

\* C4 witness: the last insert skipped a period after a streak of two.
C4_Witness ==
  /\ ev.op = "insert"
  /\ \E b \in ev.before :
       /\ b.last_log_week_start # NULL
       /\ ev.week > b.last_log_week_start + WeekDays
       /\ b.current_streak = 2

\* C5: an insert for a period at or before L (backfill, or L again) leaves
\* currentStreak, longestStreak and lastLoggedPeriodStart as they were.
C5_BackfillNoChange ==
  \A b \in ev.before :
    (ev.op = "insert" /\ b.last_log_week_start # NULL
       /\ ev.week <= b.last_log_week_start)
    => EvNow = {b}

\* C5 witness: the last insert was for a period before the last logged one,
\* on a row whose streak was two.
C5_Witness ==
  /\ ev.op = "insert"
  /\ \E b \in ev.before :
       ev.week < b.last_log_week_start /\ b.current_streak = 2

\* C6: the first accepted insert of a user creates the row
\* {currentStreak 1, longestStreak 1, lastLoggedPeriodStart P} and nothing else
\* is applied for that insert.
C6_FirstEntry ==
  (ev.op = "insert" /\ ev.before = {})
  => EvNow = {[user_id |-> ev.user_id, current_streak |-> 1,
               longest_streak |-> 1, last_log_week_start |-> ev.week]}

\* C6 witness: the last insert found no streak row, while another user has one.
C6_Witness ==
  /\ ev.op = "insert"
  /\ ev.before = {}
  /\ Cardinality(user_streaks) = 2

\* C7: at most one non-deleted entry per (userId, periodStart).
C7_OneLiveEntryPerPeriod ==
  \A x, y \in screen_time_logs :
    (/\ x.user_id = y.user_id
     /\ x.week_start_date = y.week_start_date
     /\ x.deleted_at = NULL
     /\ y.deleted_at = NULL)
    => x = y

\* C8 as stated: currentStreak is the number of consecutive periods ending at
\* lastLoggedPeriodStart that each have a non-deleted entry of the user.
C8_StreakIsLiveRun ==
  \A r \in user_streaks :
    r.current_streak = Run(WeeksLive(r.user_id), r.last_log_week_start)

\* C8 amended: currentStreak is at least 1 and at most the number of
\* consecutive periods ending at lastLoggedPeriodStart that each have an entry
\* of the user, soft-deleted entries included.
C8_StreakAtMostRun ==
  \A r \in user_streaks :
    /\ r.current_streak >= 1
    /\ r.current_streak <= Run(WeeksAny(r.user_id), r.last_log_week_start)

\* C8 witness: a backfilled period joined two runs that the streak counts
\* apart, and an entry of the user is soft-deleted.
C8_Witness ==
  \E r \in user_streaks :
    /\ r.current_streak < Run(WeeksAny(r.user_id), r.last_log_week_start)
    /\ \E x \in screen_time_logs : x.user_id = r.user_id /\ x.deleted_at # NULL

\* ------------------------------------------------- serial replay of inserts
\* The committed inserts of user u, in commit order.
OwnHist(u) == SelectSeq(hist, LAMBDA h : h.user_id = u)

\* The streak rows after the trigger has run, one insert after the other, for
\* the periods ws of user u, from the table tbl.
RECURSIVE Replay(_, _, _)
Replay(tbl, u, ws) ==
  IF ws = <<>> THEN tbl
  ELSE Replay(update_user_streak(tbl, LogRow(0, u, Head(ws), 0, NULL)), u, Tail(ws))

\* The orders of 1 .. n.
Orders(n) == {p \in [1 .. n -> 1 .. n] : \A i, j \in 1 .. n : p[i] = p[j] => i = j}

\* An order of user u's committed inserts that a serial execution can have:
\* an insert that began after another had committed comes after it.  (The
\* insert at position j found h[j].began inserts of the user committed.)
SerialOrder(h, p) ==
  \A a, b \in 1 .. Len(h) :
    (p[a] < p[b] /\ h[p[b]].began >= p[a]) => a < b

\* Every committed insert of u began after the one before it had committed.
NoOverlap(u) ==
  LET h == OwnHist(u) IN \A j \in 1 .. Len(h) : h[j].began = j - 1

\* C9: with no transaction in flight, each user's streak row is the row that
\* the user's committed inserts give when run one after the other in some
\* order in which inserts that did not overlap keep their order.
C9_Serializable ==
  (InFlight = {}) =>
    \A u \in Users :
      LET h == OwnHist(u)
      IN \E p \in Orders(Len(h)) :
           /\ SerialOrder(h, p)
           /\ SelectStreak(user_streaks, u)
                = Replay({}, u, [i \in 1 .. Len(h) |-> h[p[i]].week])

\* C10: a step changes the streak row of no user but the one whose insert
\* commits in it, and the streak row of a user whose own inserts did not
\* overlap each other is the row those inserts give alone, one after the
\* other, whatever the other users' transactions did in between.
C10_OthersUntouched ==
  \A u \in Users :
    SelectStreak(user_streaks', u) # SelectStreak(user_streaks, u)
      => /\ Len(hist') = Len(hist) + 1
         /\ hist'[Len(hist')].user_id = u

C10_OwnInsertsAlone ==
  \A u \in Users :
    NoOverlap(u) =>
      LET h == OwnHist(u)
      IN SelectStreak(user_streaks, u)
           = Replay({}, u, [i \in 1 .. Len(h) |-> h[i].week])

C10_UsersIndependent == [](C10_OwnInsertsAlone) /\ [][C10_OthersUntouched]_vars

\* C10 witness: a user's second insert has committed and made a streak of
\* two while another user's insert is in flight.
C10_Witness ==
  /\ ev.op = "insert"
  /\ \E r \in user_streaks : r.user_id = ev.user_id /\ r.current_streak = 2
  /\ NoOverlap(ev.user_id)
  /\ \E s \in InFlight : sess[s].new.user_id # ev.user_id

\* ------------------------------------------------------------ C11 and C12
\* The streak transition of the transaction of session s has taken effect in
\* this step, from the row its SELECT read.
TransitionApplied(s) ==
  LET u == sess[s].new.user_id
      P == sess[s].new.week_start_date
      found == sess[s].v_streak_record
  IN IF found = {}
       THEN /\ SelectStreak(user_streaks, u) = {}
            /\ user_streaks' = user_streaks \cup
                 {[user_id |-> u, current_streak |-> 1, longest_streak |-> 1,
                   last_log_week_start |-> P]}
     ELSE \A rec \in found :
            IF P > rec.last_log_week_start
              THEN \E q \in user_streaks' :
                     /\ q.user_id = u
                     /\ q.last_log_week_start = P
                     /\ q.current_streak \in {1, rec.current_streak + 1}
              ELSE user_streaks' = user_streaks

\* A step persists a log only together with its streak transition, and
\* changes user_streaks only together with a persisted log.
C11_StepAtomic ==
  /\ screen_time_logs' # screen_time_logs =>
       \E s \in InFlight :
         /\ sess'[s].pc = "idle"
         /\ \E n \in screen_time_logs' :
              /\ screen_time_logs' = screen_time_logs \cup {n}
              /\ n.user_id = sess[s].new.user_id
              /\ n.week_start_date = sess[s].new.week_start_date
              /\ n.deleted_at = NULL
         /\ TransitionApplied(s)
  /\ user_streaks' # user_streaks => screen_time_logs' # screen_time_logs

\* Every user with a persisted log has a streak row, whose last logged period
\* is the period of one of the user's logs, and the other way round.
C11_BothOrNeither ==
  \A u \in Users :
    LET logs == {x \in screen_time_logs : x.user_id = u}
        rows == SelectStreak(user_streaks, u)
    IN /\ (logs # {}) <=> (rows # {})
       /\ \A r \in rows : \E x \in logs : x.week_start_date = r.last_log_week_start

\* C11: the entry insert and the streak transition are atomic: a persisted
\* entry has had its streak transition applied, and when the transition fails
\* (the streak row creation is rejected) the entry is not persisted either.
C11_InsertAndStreakAtomic == [](C11_BothOrNeither) /\ [][C11_StepAtomic]_vars

\* C11 witness: a transaction that found no streak row is in flight while a
\* row of its user has been committed, so its row creation will be rejected;
\* its entry is not among the persisted logs.
C11_Witness ==
  \E s \in InFlight :
    /\ sess[s].v_streak_record = {}
    /\ SelectStreak(user_streaks, sess[s].new.user_id) # {}
    /\ Cardinality({x \in screen_time_logs : x.user_id = sess[s].new.user_id}) = 1

\* C12: the streak calculation runs when a log is updated: a step that
\* changes an existing log (its period, its minutes or its deleted_at) leaves
\* user_streaks as calculate_streak_on_log makes it for the new row.
C12_StreakRunsOnUpdate ==
  [][\A r \in screen_time_logs :
       \A n \in screen_time_logs' :
         (n.id = r.id /\ n # r)
           => user_streaks' = calculate_streak_on_log(user_streaks, n)]_vars

\* =============================================================== leaderboard
\* The week that holds CURRENT_DATE in the leaderboard states, and the number
\* of logs in them.
CurWeek == 13
MaxLbLogs == 2

\* limit_count integer DEFAULT 100
DefaultLimit == 100

\* '1900-01-01'::date as a day number (day 0 is Sunday 2024-01-07).
Date_1900_01_01 == -45296

LbUserIds == Users \cup {"carol"}

\* The period argument: the four names the function knows and one it does not.
PeriodNames == {"daily", "weekly", "monthly", "all_time", "yearly"}

LbLimits == {2, DefaultLimit}

\* display_name values, in the order ORDER BY ... ASC puts them.
Names == <<"Amy", "Kim", "Zoe">>

NamePos(n) == CHOOSE i \in 1 .. Len(Names) : Names[i] = n

SettingsRow(u, b) == [user_id |-> u, show_on_leaderboard |-> b]

\* EXTRACT(DOW FROM d): 0 for a Sunday.
DOW(d) == d % WeekDays

\* Variant: 'weekly' counts 21 days back from the current date itself.
StartDate_WeeklyFromToday(period, d) ==
  CASE period = "daily" -> d - DOW(d)
    [] period = "weekly" -> d - 21
    [] period = "monthly" -> d - 84
    [] period = "all_time" -> Date_1900_01_01
    [] OTHER -> d - 28

\* CASE period ... END CASE: the start_date of the range.
StartDate(period, d) ==
  CASE period = "daily" -> d - DOW(d)
    [] period = "weekly" -> d - DOW(d) - 21
    [] period = "monthly" -> d - 84
    [] period = "all_time" -> Date_1900_01_01
    [] OTHER -> d - 28

\* USING (auth.uid() = user_id): the rows of a table that a session of an
\* authenticated user can select.
CanView(row_user_id) == auth_uid = ServiceRole \/ auth_uid = row_user_id

\* "Users can view own logs": USING (auth.uid() = user_id AND deleted_at IS NULL)
VisibleLogs ==
  {x \in screen_time_logs :
     CanView(x.user_id) /\ (auth_uid = ServiceRole \/ x.deleted_at = NULL)}

\* "Users can view own settings": USING (auth.uid() = user_id)
VisibleSettings == {t \in user_settings : CanView(t.user_id)}

\* LEFT JOIN screen_time_logs stl ON stl.user_id = u.id
\*   AND stl.week_start_date >= start_date AND stl.deleted_at IS NULL
JoinedLogs(u, start_date) ==
  {x \in VisibleLogs :
     /\ x.user_id = u.id
     /\ x.week_start_date >= start_date
     /\ x.deleted_at = NULL}

RECURSIVE SumMinutes(_)
SumMinutes(S) ==
  IF S = {} THEN 0
  ELSE LET x == CHOOSE y \in S : TRUE IN x.minutes + SumMinutes(S \ {x})

\* COALESCE(SUM(stl.minutes), 0)
TotalMinutes(u, start_date) == SumMinutes(JoinedLogs(u, start_date))

\* Variant: an INNER JOIN on user_settings, so a user without a row is dropped.
ShownOnLeaderboard_NeedsRow(u) ==
  \E t \in VisibleSettings : t.user_id = u.id /\ t.show_on_leaderboard = TRUE

\* LEFT JOIN user_settings ust ... WHERE (ust.show_on_leaderboard = true OR
\* ust.show_on_leaderboard IS NULL)
ShownOnLeaderboard(u) ==
  \A t \in VisibleSettings : t.user_id = u.id => t.show_on_leaderboard = TRUE

\* COALESCE(us.current_streak, 0)
CurrentStreak(u) ==
  LET us == SelectStreak(user_streaks, u.id)
  IN IF us = {} THEN 0 ELSE (CHOOSE r \in us : TRUE).current_streak

\* FROM users u ... WHERE u.deleted_at IS NULL AND ... GROUP BY ... HAVING
\* COALESCE(SUM(stl.minutes), 0) > 0: the users that get a row.
Grouped(start_date) ==
  {u \in users :
     /\ u.deleted_at = NULL
     /\ ShownOnLeaderboard(u)
     /\ TotalMinutes(u, start_date) > 0}

\* Variant: ORDER BY total_minutes DESC alone.
Before_TotalOnly(a, b) == a.total_minutes > b.total_minutes

\* ORDER BY total_minutes DESC, u.display_name ASC: a sorts strictly before b.
Before(a, b) ==
  \/ a.total_minutes > b.total_minutes
  \/ /\ a.total_minutes = b.total_minutes
     /\ NamePos(a.display_name) < NamePos(b.display_name)

\* The sort: each row, in the order the scan yields them, goes in front of
\* the first row it sorts strictly before.
RECURSIVE InsertSorted(_, _)
InsertSorted(sorted, x) ==
  IF sorted = <<>> THEN <<x>>
  ELSE IF Before(x, Head(sorted)) THEN <<x>> \o sorted
  ELSE <<Head(sorted)>> \o InsertSorted(Tail(sorted), x)

RECURSIVE SortRows(_, _)
SortRows(sorted, scanned) ==
  IF scanned = <<>> THEN sorted
  ELSE SortRows(InsertSorted(sorted, Head(scanned)), Tail(scanned))

\* Variant: ROW_NUMBER() in place of RANK().
RankOver_RowNumber(sorted, i) == i

\* RANK() OVER (ORDER BY COALESCE(SUM(stl.minutes), 0) DESC) of the i-th row
\* of the rows in that order: peers share the rank of the first of them.
RECURSIVE RankOver(_, _)
RankOver(sorted, i) ==
  IF i = 1 THEN 1
  ELSE IF sorted[i].total_minutes = sorted[i - 1].total_minutes
    THEN RankOver(sorted, i - 1)
  ELSE i

\* Orders in which a scan can yield the users: no ORDER BY clause fixes the
\* order of peers, and every pair of users comes both ways round.
ScanOrders == {<<"alice", "bob", "carol">>, <<"carol", "bob", "alice">>}

\* Variant: no LIMIT clause.
Limit_None(ranked, limit_count) == ranked

\* LIMIT limit_count
Limit(ranked, limit_count) ==
  SubSeq(ranked, 1, IF limit_count < Len(ranked) THEN limit_count ELSE Len(ranked))

\* get_leaderboard(period, limit_count): the rows RETURN QUERY gives, with
\* the users scanned in the order scan.
LeaderboardRows(period, limit_count, scan) ==
  LET start_date == StartDate(period, today)
      grouped == Grouped(start_date)
      picked == SelectSeq(scan, LAMBDA id : \E u \in grouped : u.id = id)
      scanned == [i \in 1 .. Len(picked) |->
                    LET u == CHOOSE v \in grouped : v.id = picked[i]
                    IN [user_id |-> u.id, display_name |-> u.display_name,
                        total_minutes |-> TotalMinutes(u, start_date),
                        current_streak |-> CurrentStreak(u)]]
      sorted == SortRows(<<>>, scanned)
      ranked == [i \in 1 .. Len(sorted) |->
                   [user_id |-> sorted[i].user_id,
                    display_name |-> sorted[i].display_name,
                    total_minutes |-> sorted[i].total_minutes,
                    current_streak |-> sorted[i].current_streak,
                    rank |-> RankOver(sorted, i)]]
  IN Limit(ranked, limit_count)

\* supabase.rpc('get_leaderboard', {period, limit_count}): a STABLE function,
\* it writes no table.
GetLeaderboard(period, limit_count, scan) ==
  /\ lb' = [period |-> period, limit_count |-> limit_count,
            start_date |-> StartDate(period, today),
            rows |-> LeaderboardRows(period, limit_count, scan)]
  /\ UNCHANGED <<screen_time_logs, user_streaks, sess, hist, ev,
                 users, user_settings, today, auth_uid, uivars>>

\* ------------------------------------------------------ leaderboard states
\* The streak rows the trigger has made of the logs, inserted in id order.
RECURSIVE WeeksById(_)
WeeksById(S) ==
  IF S = {} THEN <<>>
  ELSE LET x == CHOOSE y \in S : \A z \in S : y.id <= z.id
       IN <<x.week_start_date>> \o WeeksById(S \ {x})

StreaksOf(logs) ==
  UNION {Replay({}, u, WeeksById({x \in logs : x.user_id = u})) :
           u \in LbUserIds}

RECURSIVE SubsetsUpTo(_, _)
SubsetsUpTo(R, n) ==
  IF n = 0 THEN {{}}
  ELSE LET P == SubsetsUpTo(R, n - 1) IN P \cup {S \cup {a} : S \in P, a \in R}

\* Logs of two users around the boundaries of the ranges: 84, 28 and 21 days
\* before the current week start, the current week, and the week after it.
RangeWeeks ==
  {WeekDays * (CurWeek - 12), WeekDays * (CurWeek - 4), WeekDays * (CurWeek - 3),
   WeekDays * CurWeek, WeekDays * (CurWeek + 1)}

RangeRows ==
  UNION {{LogRow(w + (IF u = "alice" THEN 1 ELSE 2) + (IF d = NULL THEN 0 ELSE 3),
                 u, w, 60, d) :
            w \in RangeWeeks, d \in {NULL} \cup (IF u = "alice" THEN Times ELSE {})} :
           u \in Users}

LbTables(logs, names, settings, day) ==
  /\ screen_time_logs = logs
  /\ user_streaks = StreaksOf(logs)
  /\ users = {UserRow(u, names[u]) : u \in LbUserIds}
  /\ user_settings = settings
  /\ today = day
  /\ sess = [s \in Sessions |-> Idle]
  /\ hist = <<>>
  /\ ev = Event("none", "", NULL, {})
  /\ lb = NoCall
  /\ form = NoSubmit
  /\ page = Mounted
  /\ wk = NoWeek

\* Every day of the current week, with up to MaxLbLogs logs.
RangeInit ==
  \E logs \in SubsetsUpTo(RangeRows, MaxLbLogs), k \in 0 .. WeekDays - 1 :
    /\ LbTables(logs, [u \in LbUserIds |-> Names[NamePos("Amy") + (IF u = "alice" THEN 2 ELSE 0)]],
                {}, WeekDays * CurWeek + k)
    /\ auth_uid = ServiceRole

\* Three users with at most one log each in the current week, each with no
\* settings row or one that shows or hides the user.
RankInit ==
  \E mins \in [LbUserIds -> {NULL, 0, 60, 90}],
     shown \in [LbUserIds -> {"absent", "true", "false"}],
     carol \in {"Amy", "Kim"} :
    /\ LbTables({LogRow(IF u = "alice" THEN 1 ELSE IF u = "bob" THEN 2 ELSE 3,
                        u, WeekDays * CurWeek, mins[u], NULL) :
                   u \in {v \in LbUserIds : mins[v] # NULL}},
                [u \in LbUserIds |->
                   IF u = "alice" THEN "Zoe" ELSE IF u = "bob" THEN "Amy" ELSE carol],
                {SettingsRow(u, shown[u] = "true") :
                   u \in {v \in LbUserIds : shown[v] # "absent"}},
                WeekDays * CurWeek)
    /\ auth_uid = ServiceRole

LbInit == RangeInit \/ RankInit

LbNext ==
  \E period \in PeriodNames, limit_count \in LbLimits, scan \in ScanOrders :
    GetLeaderboard(period, limit_count, scan)

LbSpec == LbInit /\ [][LbNext]_vars

\* ------------------------------------------------------- leaderboard claims
\* A call has returned: lb holds its arguments, its start_date and its rows.
Called == lb.period # ""

RowsOf == {lb.rows[i] : i \in DOMAIN lb.rows}

\* The start of the period that holds the current date: the Sunday on or
\* before it.
CurrentPeriodStart ==
  CHOOSE s \in (today - (WeekDays - 1)) .. today : s % WeekDays = 0

LiveLogs(id) ==
  {x \in screen_time_logs : x.user_id = id /\ x.deleted_at = NULL}

\* The period starts on or before the current date that a range from start
\* takes in.
PeriodsFrom(start) ==
  {w \in 0 .. today : w % WeekDays = 0 /\ w >= start}

\* The minutes the call has counted for a user: the live logs from the
\* start of its range on.
Counted(id) ==
  SumMinutes({x \in LiveLogs(id) : x.week_start_date >= lb.start_date})

Hidden(id) ==
  \E t \in user_settings : t.user_id = id /\ t.show_on_leaderboard = FALSE

OnBoard == {u \in users : Counted(u.id) > 0 /\ ~Hidden(u.id)}

\* C13: a row's totalMinutes is the sum of the minutes of the user's
\* non-deleted entries whose periodStart lies in the range of the call, from
\* its start to the current date.
C13_TotalIsSumInRange ==
  Called =>
    \A r \in RowsOf :
      r.total_minutes =
        SumMinutes({x \in LiveLogs(r.user_id) :
                      /\ lb.start_date <= x.week_start_date
                      /\ x.week_start_date <= today})

\* C14: a non-deleted entry whose periodStart is later than the current date
\* adds nothing to any totalMinutes: the total is at most the minutes of the
\* user's other live entries.
C14_FutureEntryNotCounted ==
  Called =>
    \A r \in RowsOf :
      \A x \in LiveLogs(r.user_id) :
        x.week_start_date > today =>
          r.total_minutes <= SumMinutes(LiveLogs(r.user_id) \ {x})

\* C15: 'daily' starts at the current period start and takes in that one
\* period; 'weekly' starts 21 days before it and takes in exactly 4 periods,
\* the current one included.
C15_DailyAndWeeklyStart ==
  /\ lb.period = "daily" =>
       /\ lb.start_date = CurrentPeriodStart
       /\ PeriodsFrom(lb.start_date) = {CurrentPeriodStart}
  /\ lb.period = "weekly" =>
       /\ lb.start_date = CurrentPeriodStart - 21
       /\ PeriodsFrom(lb.start_date) =
            {CurrentPeriodStart - WeekDays * k : k \in 0 .. 3}

\* A 'weekly' call on a Wednesday has counted a log of three weeks before
\* the current week.
C15_Witness ==
  /\ lb.period = "weekly"
  /\ DOW(today) = 3
  /\ \E r \in RowsOf :
       \E x \in LiveLogs(r.user_id) :
         /\ x.week_start_date = CurrentPeriodStart - 21
         /\ r.total_minutes = x.minutes

\* C16: 'monthly' starts 84 days before the current period start.
C16_MonthlyStart ==
  lb.period = "monthly" => lb.start_date = CurrentPeriodStart - 84

\* C17: a period name that is none of the four gives the result a 'weekly'
\* call gives.
C17_UnknownPeriodIsWeekly ==
  (Called /\ lb.period \notin {"daily", "weekly", "monthly", "all_time"}) =>
    \E scan \in ScanOrders :
      lb.rows = LeaderboardRows("weekly", lb.limit_count, scan)

C20_RowOrder ==
  /\ \A i, j \in DOMAIN lb.rows :
       i < j =>
         \/ lb.rows[i].total_minutes > lb.rows[j].total_minutes
         \/ /\ lb.rows[i].total_minutes = lb.rows[j].total_minutes
            /\ NamePos(lb.rows[i].display_name) <= NamePos(lb.rows[j].display_name)
  /\ \A i, j \in DOMAIN lb.rows :
       lb.rows[i].total_minutes = lb.rows[j].total_minutes =>
         lb.rows[i].rank = lb.rows[j].rank

\* Kim and Zoe have the same total and Kim's row comes first, with the same
\* rank.
C20_Witness ==
  /\ Len(lb.rows) >= 2
  /\ lb.rows[1].display_name = "Kim"
  /\ lb.rows[2].display_name = "Zoe"
  /\ lb.rows[1].total_minutes = lb.rows[2].total_minutes
  /\ lb.rows[1].rank = lb.rows[2].rank

C22_CallRepeats ==
  /\ UNCHANGED <<screen_time_logs, user_streaks>>
  /\ (Called /\ lb'.period = lb.period /\ lb'.limit_count = lb.limit_count) =>
       lb'.rows = lb.rows

FormHours == {0, 24}

FormWeeks == {0, WeekDays}

FormMinutes == {0, 30}

SubmitUsers == {"alice"}

\* editingId is null: the form records a new log.
NoRow == LogRow(0, "", NULL, 0, NULL)

\* if (totalMinutes <= 0 || totalMinutes > 1440)
ClientRejects(totalMinutes) == totalMinutes <= 0 \/ totalMinutes > 1440

\* handleSubmit: the client check, then the UPDATE of the row being edited
\* or the INSERT of a new row, with the trigger.
HandleSubmit(u, editing, w, hours, minutes) ==
  LET totalMinutes == hours * 60 + minutes
      new == LogRow(Cardinality(screen_time_logs) + 1, u, w, totalMinutes, NULL)
      upd == [editing EXCEPT !.week_start_date = w, !.minutes = totalMinutes]
      before == SelectStreak(user_streaks, u)
  IN /\ editing = NoRow \/ editing.user_id = u
     /\ UNCHANGED <<sess, lbvars, page, wk>>
     /\ IF ClientRejects(totalMinutes)
       THEN /\ form' = [totalMinutes |-> totalMinutes, error |-> "invalid", saved |-> FALSE]
            /\ UNCHANGED <<screen_time_logs, user_streaks, hist, ev>>
       ELSE IF editing # NoRow
         THEN LET ok == /\ screen_time_logs_minutes_check(upd)
                        /\ screen_time_logs_user_id_week_deleted_at_key(
                             screen_time_logs \ {editing}, upd)
              IN /\ screen_time_logs' =
                      IF ok THEN (screen_time_logs \ {editing}) \cup {upd}
                      ELSE screen_time_logs
                 /\ form' = [totalMinutes |-> totalMinutes,
                             error |-> IF ok THEN "none" ELSE "failed", saved |-> ok]
                 /\ UNCHANGED <<user_streaks, hist, ev>>
       ELSE LET ok == /\ screen_time_logs_minutes_check(new)
                      /\ screen_time_logs_user_id_week_deleted_at_key(screen_time_logs, new)
            IN /\ Cardinality(screen_time_logs) < MaxLogs
               /\ form' = [totalMinutes |-> totalMinutes,
                           error |-> IF ok THEN "none" ELSE "failed", saved |-> ok]
               /\ IF ok
                    THEN /\ screen_time_logs' = screen_time_logs \cup {new}
                         /\ user_streaks' = calculate_streak_on_log(user_streaks, new)
                         /\ hist' = Append(hist, HistEntry(u, w, Committed(u)))
                         /\ ev' = Event("insert", u, w, before)
                    ELSE UNCHANGED <<screen_time_logs, user_streaks, hist, ev>>

SubmitNext ==
  \E u \in SubmitUsers, w \in FormWeeks, hours \in FormHours, minutes \in FormMinutes,
     editing \in {NoRow} \cup {r \in screen_time_logs : r.deleted_at = NULL} :
    HandleSubmit(u, editing, w, hours, minutes)

SubmitSpec == Init /\ [][SubmitNext]_vars

\* C23: a submit is rejected as invalid exactly when its duration is outside
\* 0 .. 10080, and a rejected submit saves nothing.
C23_DurationValidation ==
  /\ (0 <= form.totalMinutes /\ form.totalMinutes <= MaxMinutes) <=> form.error # "invalid"
  /\ form.error = "invalid" => ~form.saved

\* ================================================================ weekUtils
\* A Date is an instant, in hours from 00:00 UTC of day 0 (a Sunday); a date
\* string 'YYYY-MM-DD' is a day number.  The local time of the browser is
\* UTC plus tz hours.
MaxOptions == 3

DayHours == 24

TzOffsets == {-5, 0, 2}

WkDates == 28 .. 41

HoursOfDay == {0, 3, 12, 22}

WkInstants == {d * DayHours + h : d \in WkDates, h \in HoursOfDay}

\* getFullYear(), getMonth(), getDate(): the local calendar day of an instant.
LocalDate(t, tz) == (t + tz) \div DayHours

\* getHours()
LocalHours(t, tz) == (t + tz) % DayHours

\* getDay(): 0 for a Sunday.
getDay(t, tz) == LocalDate(t, tz) % WeekDays

\* setDate(..) then setHours(h, ..): the instant of hour h of a local day.
LocalInstant(day, h, tz) == day * DayHours + h - tz

\* new Date(dateString): a date-only string is midnight UTC of that day.
NewDate(dateString) == dateString * DayHours

\* toISOString().split('T')[0]: the UTC calendar day.
toISODate(t) == t \div DayHours

getWeekStartDate(date, tz) ==
  LET day == getDay(date, tz)
      diff == day
  IN LocalInstant(LocalDate(date, tz) - diff, 0, tz)

\* setHours(23, 59, 59, 999): the last hour of the local day.
getWeekEndDate(weekStart, tz) ==
  LocalInstant(LocalDate(weekStart, tz) + 6, 23, tz)

getWeekOptions(now, numWeeks, tz) ==
  [k \in 1 .. numWeeks |->
     LET i == k - 1
         date == LocalInstant(LocalDate(now, tz) - i * 7, LocalHours(now, tz), tz)
         weekStart == getWeekStartDate(date, tz)
         weekEnd == getWeekEndDate(weekStart, tz)
     IN [weekStartDate |-> toISODate(weekStart), weekEndDate |-> toISODate(weekEnd)]]

formatDateToWeekStart(dateString, tz) ==
  LET date == NewDate(dateString)
      weekStart == getWeekStartDate(date, tz)
  IN toISODate(weekStart)

\* date - (EXTRACT(DOW FROM date)::integer || ' days')::interval
SqlWeekStart(date) == date - DOW(date)

Call(fn, tz, arg, out) == [fn |-> fn, tz |-> tz, arg |-> arg, out |-> out]

CallGetWeekStartDate(date, tz) ==
  /\ wk' = Call("getWeekStartDate", tz, date, <<getWeekStartDate(date, tz)>>)
  /\ UNCHANGED <<screen_time_logs, user_streaks, sess, hist, ev, lbvars, form, page>>

CallGetWeekEndDate(date, tz) ==
  /\ wk' = Call("getWeekEndDate", tz, getWeekStartDate(date, tz),
                <<getWeekEndDate(getWeekStartDate(date, tz), tz)>>)
  /\ UNCHANGED <<screen_time_logs, user_streaks, sess, hist, ev, lbvars, form, page>>

CallGetWeekOptions(now, numWeeks, tz) ==
  /\ wk' = Call("getWeekOptions", tz, now, getWeekOptions(now, numWeeks, tz))
  /\ UNCHANGED <<screen_time_logs, user_streaks, sess, hist, ev, lbvars, form, page>>

CallFormatDateToWeekStart(dateString, tz) ==
  /\ wk' = Call("formatDateToWeekStart", tz, dateString,
                <<formatDateToWeekStart(dateString, tz)>>)
  /\ UNCHANGED <<screen_time_logs, user_streaks, sess, hist, ev, lbvars, form, page>>

CallSqlWeekStart(date) ==
  /\ wk' = Call("sql", 0, date, <<SqlWeekStart(date)>>)
  /\ UNCHANGED <<screen_time_logs, user_streaks, sess, hist, ev, lbvars, form, page>>

WeekNext ==
  \/ \E t \in WkInstants, tz \in TzOffsets : CallGetWeekStartDate(t, tz)
  \/ \E t \in WkInstants, tz \in TzOffsets : CallGetWeekEndDate(t, tz)
  \/ \E t \in WkInstants, n \in 1 .. MaxOptions, tz \in TzOffsets :
       CallGetWeekOptions(t, n, tz)
  \/ \E d \in WkDates, tz \in TzOffsets : CallFormatDateToWeekStart(d, tz)
  \/ \E d \in WkDates : CallSqlWeekStart(d)

WeekSpec == Init /\ [][WeekNext]_vars

\* C24: the weekly period start computed for a date is a Sunday and lies 0 to
\* 6 days before the date: for getWeekStartDate in local time, for the date
\* string formatDateToWeekStart returns, and for the SQL expression.
C24_PeriodAlignment ==
  /\ wk.fn = "getWeekStartDate" =>
       /\ getDay(wk.out[1], wk.tz) = 0
       /\ LocalDate(wk.arg, wk.tz) - LocalDate(wk.out[1], wk.tz) \in 0 .. 6
  /\ wk.fn = "formatDateToWeekStart" =>
       /\ wk.out[1] % WeekDays = 0
       /\ wk.arg - wk.out[1] \in 0 .. 6
  /\ wk.fn = "sql" =>
       /\ wk.out[1] % WeekDays = 0
       /\ wk.arg - wk.out[1] \in 0 .. 6

\* C25: the period end is 6 days after the period start: for getWeekEndDate
\* in local time and for the two date strings of every option of
\* getWeekOptions, whose option i starts 7 * i days before option 0.
C25_PeriodEnd ==
  /\ wk.fn = "getWeekEndDate" =>
       LocalDate(wk.out[1], wk.tz) = LocalDate(wk.arg, wk.tz) + 6
  /\ wk.fn = "getWeekOptions" =>
       \A k \in DOMAIN wk.out :
         /\ wk.out[k].weekEndDate = wk.out[k].weekStartDate + 6
         /\ wk.out[k].weekStartDate = wk.out[1].weekStartDate - 7 * (k - 1)

\* ------------------------------------------------------ later streak claims
\* The latest of a set of period starts.
MaxWeekOf(S) == CHOOSE w \in S : \A v \in S : v <= w

\* Each user's lastLoggedPeriodStart is the latest period of all the entries
\* the user has inserted.
LastLoggedIsMax ==
  \A r \in user_streaks :
    r.last_log_week_start = MaxWeekOf(WeeksAny(r.user_id))

\* C26: in every step, interleaved transitions of one user included, a
\* user's lastLoggedPeriodStart is at least what it was before the step.
C26_NoEarlier ==
  \A r \in user_streaks :
    \A q \in user_streaks' :
      q.user_id = r.user_id => q.last_log_week_start >= r.last_log_week_start

C26_LastLoggedNeverEarlier == [][C26_NoEarlier]_vars

\* The periods of user u's committed inserts are strictly increasing, and
\* none of the user's entries is soft-deleted.
IncreasingOnly(u) ==
  LET h == OwnHist(u)
  IN /\ \A i, j \in 1 .. Len(h) : i < j => h[i].week < h[j].week
     /\ \A x \in screen_time_logs : x.user_id = u => x.deleted_at = NULL

\* The length of the longest run of consecutive periods in S.
LongestRun(S) ==
  IF S = {} THEN 0
  ELSE LET w == CHOOSE v \in S : \A x \in S : Run(S, x) <= Run(S, v)
       IN Run(S, w)

\* C27: after inserts of one user in strictly increasing periods, with no
\* soft-delete, currentStreak is the run of consecutive periods ending at the
\* latest inserted period and longestStreak is the longest run among the
\* inserted periods.
C27_IncrementalIsRecomputed ==
  \A r \in user_streaks :
    IncreasingOnly(r.user_id) =>
      /\ r.last_log_week_start = MaxWeekOf(WeeksAny(r.user_id))
      /\ r.current_streak = Run(WeeksAny(r.user_id), r.last_log_week_start)
      /\ r.longest_streak = LongestRun(WeeksAny(r.user_id))

\* A run of two periods, then a gap: the streak is 1 and the longest is 2.
C27_Witness ==
  \E r \in user_streaks :
    /\ IncreasingOnly(r.user_id)
    /\ Len(OwnHist(r.user_id)) = 3
    /\ r.current_streak = 1
    /\ r.longest_streak = 2

\* ======================================================= row level security
\* A user signs in: the browser's requests now carry that user's token.
SignIn(u) ==
  /\ auth_uid # u
  /\ auth_uid' = u
  /\ UNCHANGED <<screen_time_logs, user_streaks, sess, hist, ev,
                 users, user_settings, today, lb, uivars>>

\* Three users with at most one log each in the current week and no settings
\* row, and one of them signed in.
RlsInit ==
  \E mins \in [LbUserIds -> {NULL, 60, 90}], u \in LbUserIds :
    /\ LbTables({LogRow(IF v = "alice" THEN 1 ELSE IF v = "bob" THEN 2 ELSE 3,
                        v, WeekDays * CurWeek, mins[v], NULL) :
                   v \in {x \in LbUserIds : mins[x] # NULL}},
                [v \in LbUserIds |->
                   IF v = "alice" THEN "Zoe" ELSE IF v = "bob" THEN "Amy" ELSE "Kim"],
                {}, WeekDays * CurWeek)
    /\ auth_uid = u

RlsNext ==
  \/ \E u \in LbUserIds : SignIn(u)
  \/ \E period \in PeriodNames, limit_count \in LbLimits, scan \in ScanOrders :
       GetLeaderboard(period, limit_count, scan)

RlsSpec == RlsInit /\ [][RlsNext]_vars

\* C28: with the store as it is, a call returns the rows that the call
\* before it with the same period and limit returned, whichever user made
\* either call.
C28_SameRows ==
  (/\ Called
   /\ lb'.period = lb.period
   /\ lb'.limit_count = lb.limit_count
   /\ lb.limit_count = DefaultLimit) =>
    lb'.rows = lb.rows

C28_CallerIndependent == [][C28_SameRows]_vars

\* ========================================================== LeaderboardPage
\* const periods: the buttons of the page.
periods == <<"daily", "weekly", "monthly", "all_time">>

\* The page's session: the signed-in user under the policies, or a read of
\* the leaderboard that the policies do not narrow.
PageSessions == {"alice", ServiceRole}

PageInit ==
  \E mins \in [LbUserIds -> {NULL, 60, 90}], uid \in PageSessions :
    /\ LbTables({LogRow(IF v = "alice" THEN 1 ELSE IF v = "bob" THEN 2 ELSE 3,
                        v, WeekDays * CurWeek, mins[v], NULL) :
                   v \in {x \in LbUserIds : mins[x] # NULL}},
                [v \in LbUserIds |->
                   IF v = "alice" THEN "Zoe" ELSE IF v = "bob" THEN "Amy" ELSE "Kim"],
                {}, WeekDays * CurWeek)
    /\ auth_uid = uid

\* onClick={() => setPeriod(p)}: the buttons are rendered when loading is
\* false; a new period runs the effect, and loadLeaderboard sets loading.
SetPeriod(p) ==
  /\ ~page.loading
  /\ p # page.period
  /\ page' = [page EXCEPT !.period = p, !.loading = TRUE, !.pending = p]
  /\ UNCHANGED <<screen_time_logs, user_streaks, sess, hist, ev, lbvars, form, wk>>

\* The rpc returns data: setLeaderboard(data || []), then setLoading(false).
LoadResolves(scan) ==
  /\ page.pending # ""
  /\ lb' = [period |-> page.pending, limit_count |-> DefaultLimit,
            start_date |-> StartDate(page.pending, today),
            rows |-> LeaderboardRows(page.pending, DefaultLimit, scan)]
  /\ page' = [page EXCEPT !.leaderboard = LeaderboardRows(page.pending, DefaultLimit, scan),
                          !.shown = page.pending, !.loading = FALSE, !.pending = ""]
  /\ UNCHANGED <<screen_time_logs, user_streaks, sess, hist, ev,
                 users, user_settings, today, auth_uid, form, wk>>

\* The rpc returns an error: it is logged, then setLoading(false).
LoadFails ==
  /\ page.pending # ""
  /\ page' = [page EXCEPT !.loading = FALSE, !.pending = ""]
  /\ UNCHANGED <<screen_time_logs, user_streaks, sess, hist, ev, lbvars, form, wk>>

PageNext ==
  \/ \E i \in DOMAIN periods : SetPeriod(periods[i])
  \/ \E scan \in ScanOrders : LoadResolves(scan)
  \/ LoadFails

PageSpec == PageInit /\ [][PageNext]_vars

\* leaderboard.find((e) => e.rank === actualRank): the index of the first row
\* with that rank, 0 when there is none.
Find(rows, rank) ==
  LET S == {i \in DOMAIN rows : rows[i].rank = rank}
  IN IF S = {} THEN 0 ELSE CHOOSE i \in S : \A j \in S : i <= j

\* leaderboard.slice(0, 3).map((_entry, index) => ...): for each of the first
\* three rows, the row found for rank [2, 1, 3][index], or null.
Podium(rows) ==
  [index \in 1 .. (IF Len(rows) < 3 THEN Len(rows) ELSE 3) |->
     Find(rows, <<2, 1, 3>>[index])]

\* C29: when no load is in flight, the rows on display are the result of
\* get_leaderboard for the selected period.
C29_DisplayedIsSelected ==
  ~page.loading =>
    /\ page.shown = page.period
    /\ lb.period = page.period
    /\ page.leaderboard = lb.rows

\* C30: the podium shows each of the first min(3, n) rows exactly once.
C30_PodiumShowsTopThree ==
  ~page.loading =>
    LET shown == Podium(page.leaderboard)
    IN \A i \in DOMAIN shown :
         Cardinality({k \in DOMAIN shown : shown[k] = i}) = 1

====
